---- MODULE Spec2Model ----
(***************************************************************************)
(* Keyframe motion curves (zunda/motion.py) and the commentary layers      *)
(* (movis/contrib/commentary.py) as state machines.                        *)
(*                                                                         *)
(* Numbers.  Python floats are modelled by the exact numbers they hold:    *)
(* every time and value drawn below is a small integer, which a float      *)
(* represents exactly; an interpolated result is an exact fraction         *)
(* <<num, den>> in lowest terms.  A value is a record [ty, x, y]: ty is    *)
(* the Python type ("int", "float", "tuple", "None"), x the number (or the *)
(* first component), y the second component of a tuple (0 otherwise).      *)
(* An easing function is identified with its registry key: the registry    *)
(* maps each key to its own lambda object, so two stored functions are     *)
(* the same object exactly when their keys are equal.                      *)
(***************************************************************************)
EXTENDS Integers, Sequences, FiniteSets, Bags, TLC

VARIABLES
    motion,      \* the Motion instance
    call,        \* the last call made on it, with its arguments
    ret,         \* the outcome of that call
    other,       \* a second Motion instance, built by append calls only
    todo,        \* the triples still to be appended to other
    batch,       \* the triples both instances are built from
    extended,    \* motion has had its one extend call
    retOther,    \* the outcome of the last evaluate call on other
    character,   \* the Character instance
    seen,        \* the last call made on it, with its result
    built,       \* the per-segment arguments a Character layer was built with
    slide,       \* the Slide instance
    shown        \* the last call made on a layer, with its result

motionVars == <<motion, call, ret>>

pairVars == <<other, todo, batch, extended, retOther>>

characterVars == <<character, seen, built>>

slideVars == <<slide, shown>>

vars == <<motionVars, pairVars, characterVars, slideVars>>

----------------------------------------------------------------------------
(* Bounds of the model *)

MaxLen == 2

MaxTime == 2

MaxBatch == 3

MaxFrames == 3

MaxTies == 3

----------------------------------------------------------------------------
(* motion.py: the easing registry *)

motion_types_to_func ==
    {"linear", "ease_in", "ease_out", "ease_in_out", "ease_in_cubic",
     "ease_out_cubic", "ease_in_expo", "ease_out_expo"}

NoneVal == [ty |-> "None", x |-> 0, y |-> 0]

Abs(n) == IF n < 0 THEN -n ELSE n

RECURSIVE Gcd(_, _)
Gcd(a, b) == IF b = 0 THEN a ELSE Gcd(b, a % b)

(* the fraction n/d in lowest terms, d > 0 *)
Rat(n, d) ==
    LET g == Gcd(Abs(n), Abs(d))
        s == IF d < 0 THEN -1 ELSE 1
    IN  <<(s * n) \div g, (s * d) \div g>>

(* the easing lambdas, applied to t = a/d; the two exponential ones have no
   rational value and are kept symbolic *)
Ease(name, a, d) ==
    CASE name = "linear" -> Rat(a, d)
      [] name = "ease_in" -> Rat(a * a, d * d)
      [] name = "ease_out" -> Rat(d * d - (d - a) * (d - a), d * d)
      [] name = "ease_in_out" -> Rat(a * a * (3 * d - 2 * a), d * d * d)
      [] name = "ease_in_cubic" -> Rat(a * a * a, d * d * d)
      [] name = "ease_out_cubic" ->
            Rat(d * d * d - (d - a) * (d - a) * (d - a), d * d * d)
      [] OTHER -> <<name, Rat(a, d)>>

----------------------------------------------------------------------------
(* motion.py: Motion *)

(* Motion.__init__ *)
NewMotion(default_value) ==
    [container |-> "list", keyframes |-> <<>>, values |-> <<>>,
     motion_types |-> <<>>, default_value |-> default_value]

(* float(keyframe): the float holding the number of an int or a float *)
Float(n) == n.x

(* Motion._cast *)
_cast(value) ==
    IF value.ty = "tuple"
    THEN [ty |-> "tuple", x |-> value.x, y |-> value.y]
    ELSE [ty |-> "float", x |-> value.x, y |-> 0]

(* bisect.bisect (bisect_right) on a 0-based view of the sequence a *)
RECURSIVE BisectLoop(_, _, _, _)
BisectLoop(a, x, lo, hi) ==
    IF lo < hi
    THEN LET mid == (lo + hi) \div 2
         IN  IF x < a[mid + 1]
             THEN BisectLoop(a, x, lo, mid)
             ELSE BisectLoop(a, x, mid + 1, hi)
    ELSE lo

(* a bug: no search, the new keyframe always goes to the end *)
bisect_end(a, x) == Len(a)

(* a bug: bisect_left, the new keyframe goes before those of its time *)
bisect_left(a, x) == Cardinality({i \in DOMAIN a : a[i] < x})

(* bisect.bisect(a, x) *)
bisect(a, x) == BisectLoop(a, x, 0, Len(a))

(* list.insert(i, e): an index past the end appends *)
ListInsert(s, i, e) ==
    LET j == IF i > Len(s) THEN Len(s) ELSE i
    IN  SubSeq(s, 1, j) \o <<e>> \o SubSeq(s, j + 1, Len(s))

(* Motion.append: the new instance state and the exception raised *)
append(m, keyframe, value, motion_type) ==
    LET i == bisect(m.keyframes, keyframe.x)
    IN  IF m.container = "tuple"
        THEN [motion |-> m, raised |-> "AttributeError"]
        ELSE LET m1 == [m EXCEPT
                          !.keyframes = ListInsert(@, i, Float(keyframe)),
                          !.values = ListInsert(@, i, _cast(value))]
             IN  IF motion_type \notin motion_types_to_func
                 THEN [motion |-> m1, raised |-> "KeyError"]
                 ELSE [motion |->
                          [m1 EXCEPT
                             !.motion_types = ListInsert(@, i, motion_type)],
                       raised |-> "none"]

Min(a, b) == IF a < b THEN a ELSE b

(* zip(keyframes, values, motion_types): stops at the shortest argument *)
Zip(ks, vs, ms) ==
    [i \in 1..Min(Len(ks), Min(Len(vs), Len(ms))) |->
        [k |-> ks[i], v |-> vs[i], f |-> ms[i]]]

(* a < b on two stored values: floats by number, tuples lexicographically *)
ValueLess(a, b) ==
    IF a.ty = "tuple"
    THEN a.x < b.x \/ (a.x = b.x /\ a.y < b.y)
    ELSE a.x < b.x

(* a < b on two zipped triples, as Python compares tuples: the first field
   that differs decides.  Reaching the functions raises TypeError (see
   SortRaises); equal triples are not less. *)
TupleLess(a, b) ==
    \/ a.k < b.k
    \/ a.k = b.k /\ ValueLess(a.v, b.v)

(* sorted() compares two functions, which raises TypeError, exactly when two
   triples agree on time and value and hold different functions: a sort that
   compared no such pair could not tell their order *)
SortRaises(zipped) ==
    \E i, j \in DOMAIN zipped :
        /\ zipped[i].k = zipped[j].k
        /\ zipped[i].v = zipped[j].v
        /\ zipped[i].f # zipped[j].f

(* sorted(): stable, ascending by TupleLess; e goes after every element
   that is not greater than it *)
RECURSIVE SortedInsert(_, _)
SortedInsert(s, e) ==
    IF s = <<>> THEN <<e>>
    ELSE IF TupleLess(e, s[Len(s)])
         THEN SortedInsert(SubSeq(s, 1, Len(s) - 1), e) \o <<s[Len(s)]>>
         ELSE s \o <<e>>

(* a bug: the merged triples are not sorted at all *)
Sorted_unsorted(s) == s

RECURSIVE Sorted(_)
Sorted(s) ==
    IF s = <<>> THEN <<>>
    ELSE SortedInsert(Sorted(SubSeq(s, 1, Len(s) - 1)), s[Len(s)])

(* Motion.extend: names.given is FALSE when motion_types is None *)
extend(m, keyframes, values, names) ==
    IF Len(keyframes) # Len(values)
    THEN [motion |-> m, raised |-> "AssertionError"]
    ELSE IF names.given /\ Len(keyframes) # Len(names.names)
    THEN [motion |-> m, raised |-> "AssertionError"]
    ELSE IF m.container = "tuple"
    THEN [motion |-> m, raised |-> "TypeError"]
    ELSE LET motion_types ==
                 IF names.given THEN names.names
                 ELSE [i \in 1..Len(keyframes) |-> "linear"]
         IN  IF \E i \in DOMAIN motion_types :
                    motion_types[i] \notin motion_types_to_func
             THEN [motion |-> m, raised |-> "KeyError"]
             ELSE LET zipped ==
                          Zip(m.keyframes \o
                                [i \in DOMAIN keyframes |-> Float(keyframes[i])],
                              m.values \o
                                [i \in DOMAIN values |-> _cast(values[i])],
                              m.motion_types \o motion_types)
                      srt == Sorted(zipped)
                  IN  IF SortRaises(zipped)
                      THEN [motion |-> m, raised |-> "TypeError"]
                      ELSE IF zipped = <<>>
                      THEN [motion |-> m, raised |-> "ValueError"]
                      ELSE [motion |->
                               [m EXCEPT
                                  !.container = "tuple",
                                  !.keyframes = [i \in DOMAIN srt |-> srt[i].k],
                                  !.values = [i \in DOMAIN srt |-> srt[i].v],
                                  !.motion_types =
                                      [i \in DOMAIN srt |-> srt[i].f]],
                            raised |-> "none"]

(* a stored value as returned: each component an exact fraction *)
Returned(v) == [ty |-> v.ty, x |-> Rat(v.x, 1), y |-> Rat(v.y, 1)]

(* m + (M - m) * t for the fraction t *)
Lerp(lo, hi, t) == Rat(lo * t[2] + (hi - lo) * t[1], t[2])

(* a bug: `if self.default_value:`, which a default of 0.0 fails *)
HasDefault_truthy(m) == m.default_value # NoneVal /\ m.default_value.x # 0

(* self.default_value is not None *)
HasDefault(m) == m.default_value # NoneVal

(* self.values[0] *)
FirstValue(m) == m.values[1]

(* a bug: values[0] copied into the clamp-right branch *)
LastValue_first(m) == m.values[1]

(* self.values[-1] *)
LastValue(m) == m.values[Len(m.values)]

(* Motion.__call__: the exception raised, the return statement taken and the
   value returned *)
evaluate(m, layer_time) ==
    LET n == Len(m.keyframes)
        none == Returned(NoneVal)
    IN  IF n = 0
        THEN IF HasDefault(m)
             THEN [raised |-> "none", via |-> "default",
                   value |-> Returned(m.default_value)]
             ELSE [raised |-> "ValueError: No keyframes", via |-> "raise",
                   value |-> none]
        ELSE IF n = 1
        THEN [raised |-> "none", via |-> "single",
              value |-> Returned(FirstValue(m))]
        ELSE IF layer_time < m.keyframes[1]
        THEN [raised |-> "none", via |-> "first",
              value |-> Returned(FirstValue(m))]
        ELSE IF m.keyframes[n] <= layer_time
        THEN [raised |-> "none", via |-> "last",
              value |-> Returned(LastValue(m))]
        ELSE LET i == bisect(m.keyframes, layer_time)
                 lo == m.values[i]
                 hi == m.values[i + 1]
                 duration == m.keyframes[i + 1] - m.keyframes[i]
             IN  IF i > Len(m.motion_types)
                 THEN [raised |-> "IndexError", via |-> "raise",
                       value |-> none]
                 ELSE LET t == Ease(m.motion_types[i],
                                    layer_time - m.keyframes[i], duration)
                      IN  IF lo.ty = "float" /\ hi.ty = "float"
                          THEN [raised |-> "none", via |-> "interpolate",
                                value |-> [ty |-> "float",
                                           x |-> Lerp(lo.x, hi.x, t),
                                           y |-> Rat(0, 1)]]
                          ELSE IF lo.ty = "tuple" /\ hi.ty = "tuple"
                          THEN [raised |-> "none", via |-> "interpolate",
                                value |-> [ty |-> "tuple",
                                           x |-> Lerp(lo.x, hi.x, t),
                                           y |-> Lerp(lo.y, hi.y, t)]]
                          ELSE [raised |-> "ValueError: Unexpected value",
                                via |-> "raise", value |-> none]

----------------------------------------------------------------------------
(* The arguments the calls are made with *)

Times == 0..MaxTime

Queries == (0 - 1)..(MaxTime + 1)

(* a keyframe time, passed as an int or as a float *)
KeyInputs ==
    {[ty |-> IF k % 2 = 0 THEN "int" ELSE "float", x |-> k] : k \in Times}

(* a value: T is float or Tuple[float, float]; numbers come as int or float *)
ScalarInputs ==
    {[ty |-> "int", x |-> 0, y |-> 0], [ty |-> "float", x |-> 1, y |-> 0]}

TupleInputs ==
    {[ty |-> "tuple", x |-> 0, y |-> 1], [ty |-> "tuple", x |-> 1, y |-> 0]}

ValueInputs == ScalarInputs \cup TupleInputs

(* easing names: two registered ones and one that is not *)
NameInputs == {"linear", "ease_in", "bogus"}

RegisteredInputs == NameInputs \cap motion_types_to_func

DefaultInputs == {NoneVal, [ty |-> "float", x |-> 0, y |-> 0]}

(* Motion[T] holds values of one type T: a value passed to the instance m has
   the type of those it holds and of its default *)
OfType(m, v) ==
    /\ \A i \in DOMAIN m.values : m.values[i].ty = _cast(v).ty
    /\ m.default_value # NoneVal => m.default_value.ty = _cast(v).ty

ValuesFor(m) == {v \in ValueInputs : OfType(m, v)}

NoValue == Returned(NoneVal)

Triple(k, v, f) == [k |-> k, v |-> v, f |-> f]

RECURSIVE BagOfSeq(_)
BagOfSeq(s) ==
    IF s = <<>> THEN EmptyBag
    ELSE BagOfSeq(SubSeq(s, 1, Len(s) - 1)) (+) SetToBag({s[Len(s)]})

(* the outcome of an append or extend call: `return self`, or the raise *)
Outcome(raised) ==
    [raised |-> raised, via |-> IF raised = "none" THEN "self" ELSE "raise",
     value |-> NoValue]

(* the last call: count keyframes were supplied; valid says that the lists
   had one length and every easing name is registered; added are the
   (time, value, easing) triples of a valid call, after float() and _cast *)
Called(op, count, valid, added, time) ==
    [op |-> op, count |-> count, valid |-> valid,
     added |-> IF valid THEN added ELSE <<>>, time |-> time]

----------------------------------------------------------------------------
(* The Motion instance under its callers: call is the last call made and    *)
(* ret its outcome.                                                         *)

MotionInit ==
    /\ \E d \in DefaultInputs : motion = NewMotion(d)
    /\ call = Called("init", 0, TRUE, <<>>, 0)
    /\ ret = Outcome("none")

AppendCall ==
    \E k \in KeyInputs, v \in ValuesFor(motion), name \in NameInputs :
        /\ Len(motion.keyframes) < MaxLen
        /\ LET r == append(motion, k, v, name)
               added == <<Triple(Float(k), _cast(v), name)>>
           IN  /\ motion' = r.motion
               /\ call' = Called("append", 1, name \in motion_types_to_func,
                                 added, 0)
               /\ ret' = Outcome(r.raised)

ExtendStep(ks, vs, given, ns) ==
    LET r == extend(motion, ks, vs, [given |-> given, names |-> ns])
        used == IF given THEN ns ELSE [i \in DOMAIN ks |-> "linear"]
        valid == /\ Len(ks) = Len(vs)
                 /\ Len(ks) = Len(used)
                 /\ \A i \in DOMAIN used : used[i] \in motion_types_to_func
        added == IF valid
                 THEN [i \in DOMAIN ks |->
                         Triple(Float(ks[i]), _cast(vs[i]), used[i])]
                 ELSE <<>>
    IN  /\ motion' = r.motion
        /\ call' = Called("extend", Len(ks), valid, added, 0)
        /\ ret' = Outcome(r.raised)

(* the lengths of the lists passed to extend *)
ExtendLens == {l \in {0, 1, 2} : Len(motion.keyframes) + l <= MaxLen}

SeqsOf(S, lens) == UNION {[1..l -> S] : l \in lens}

(* extend(keyframes, values, motion_types) with lists of one length *)
ExtendCall ==
    \E ts \in SeqsOf(KeyInputs \X ValuesFor(motion) \X RegisteredInputs,
                     ExtendLens) :
        /\ \A i, j \in DOMAIN ts : _cast(ts[i][2]).ty = _cast(ts[j][2]).ty
        /\ ExtendStep([i \in DOMAIN ts |-> ts[i][1]],
                      [i \in DOMAIN ts |-> ts[i][2]],
                      TRUE, [i \in DOMAIN ts |-> ts[i][3]])

(* extend(keyframes, values): motion_types is None *)
ExtendDefaultCall ==
    \E ts \in SeqsOf(KeyInputs \X ValuesFor(motion), ExtendLens) :
        /\ \A i, j \in DOMAIN ts : _cast(ts[i][2]).ty = _cast(ts[j][2]).ty
        /\ ExtendStep([i \in DOMAIN ts |-> ts[i][1]],
                      [i \in DOMAIN ts |-> ts[i][2]], FALSE, <<>>)

(* extend with one keyframe whose easing name is not registered *)
ExtendUnknownCall ==
    \E k \in KeyInputs, v \in ValuesFor(motion),
       name \in NameInputs \ motion_types_to_func :
        /\ 1 \in ExtendLens
        /\ ExtendStep(<<k>>, <<v>>, TRUE, <<name>>)

(* extend with one value, or one easing name, fewer than keyframes *)
ExtendMismatchCall ==
    \E l \in ExtendLens \ {0}, k \in KeyInputs, v \in ValuesFor(motion),
       short \in {"values", "motion_types"} :
        ExtendStep([i \in 1..l |-> k],
                   [i \in 1..(IF short = "values" THEN l - 1 ELSE l) |-> v],
                   TRUE,
                   [i \in 1..(IF short = "values" THEN l ELSE l - 1) |->
                       "linear"])

EvaluateCall ==
    \E q \in Queries :
        /\ ret' = evaluate(motion, q)
        /\ call' = Called("evaluate", 0, TRUE, <<>>, q)
        /\ UNCHANGED motion

----------------------------------------------------------------------------
(* A Motion instance built by append calls alone, at two times, so that    *)
(* keyframes meet at one time.                                              *)

TieInputs == {k \in KeyInputs : k.x <= 1}

AppendTieCall ==
    \E k \in TieInputs, v \in ValuesFor(motion), name \in NameInputs :
        /\ Len(motion.keyframes) < MaxTies
        /\ LET r == append(motion, k, v, name)
               added == <<Triple(Float(k), _cast(v), name)>>
           IN  /\ motion' = r.motion
               /\ call' = Called("append", 1, name \in motion_types_to_func,
                                 added, 0)
               /\ ret' = Outcome(r.raised)

----------------------------------------------------------------------------
(* Two Motion instances built from one set of keyframes with pairwise       *)
(* distinct times: motion by one extend call, other by one append call per  *)
(* keyframe, in any order.                                                  *)

(* the sets of at most MaxBatch argument triples with distinct times and
   values of one type *)
Batches ==
    {b \in SUBSET (KeyInputs \X ValueInputs \X RegisteredInputs) :
        /\ Cardinality(b) <= MaxBatch
        /\ \A p, q \in b : p # q => p[1].x # q[1].x
        /\ \A p, q \in b : _cast(p[2]).ty = _cast(q[2]).ty}

(* the lists that hold every element of the set b once *)
Orderings(b) ==
    {ts \in [1..Cardinality(b) -> b] : \A p \in b : \E i \in DOMAIN ts : ts[i] = p}

NoPair ==
    /\ other = NewMotion(NoneVal)
    /\ todo = {}
    /\ batch = {}
    /\ extended = FALSE
    /\ retOther = Outcome("none")

PairInit ==
    /\ motion = NewMotion(NoneVal)
    /\ other = NewMotion(NoneVal)
    /\ batch \in Batches
    /\ todo = batch
    /\ extended = FALSE
    /\ call = Called("init", 0, TRUE, <<>>, 0)
    /\ ret = Outcome("none")
    /\ retOther = Outcome("none")

PairExtend ==
    /\ ~extended
    /\ \E ts \in Orderings(batch) :
          LET r == extend(motion,
                          [i \in DOMAIN ts |-> ts[i][1]],
                          [i \in DOMAIN ts |-> ts[i][2]],
                          [given |-> TRUE,
                           names |-> [i \in DOMAIN ts |-> ts[i][3]]])
          IN  /\ motion' = r.motion
              /\ ret' = Outcome(r.raised)
              /\ call' = Called("extend", Len(ts), TRUE, <<>>, 0)
    /\ extended' = TRUE
    /\ UNCHANGED <<other, todo, batch, retOther>>

PairAppend ==
    \E p \in todo :
        /\ other' = append(other, p[1], p[2], p[3]).motion
        /\ todo' = todo \ {p}
        /\ UNCHANGED <<motionVars, batch, extended, retOther>>

PairEvaluate ==
    \E q \in Queries :
        /\ extended
        /\ todo = {}
        /\ ret' = evaluate(motion, q)
        /\ retOther' = evaluate(other, q)
        /\ call' = Called("evaluate", 0, TRUE, <<>>, q)
        /\ UNCHANGED <<motion, other, todo, batch, extended>>

----------------------------------------------------------------------------
(* commentary.py: Character.  Times are in ticks of 1/16 s, which floats    *)
(* hold exactly, as they do the quotients taken below.                      *)

(* int(x) for the quotient x = a / b, b > 0: Python truncates toward zero *)
IntOfQuotient(a, b) == IF a >= 0 THEN a \div b ELSE 0 - ((0 - a) \div b)

(* s[j] with a Python index: 0-based, a negative j counts from the end *)
PyIndex(s, j) == IF j >= 0 THEN j + 1 ELSE Len(s) + j + 1

(* rand_from_string(f"{character_name}:{n}"): the first 32 bits of the
   SHA-224 digest of "0:0:<character_name>:<n>" seed a Mersenne Twister whose
   first double is the draw.  The digest and the generator are computed
   outside the model; this is the draw for "zundamon" in thousandths,
   rounded down. *)
rand_from_string(character_name, n) ==
    CASE n = 0 - 7 -> 113 [] n = 0 - 6 -> 789 [] n = 0 - 5 -> 791
      [] n = 0 - 4 -> 747 [] n = 0 - 3 -> 154 [] n = 0 - 2 -> 417
      [] n = 0 - 1 -> 614 [] n = 0 -> 118 [] n = 1 -> 831 [] n = 2 -> 918
      [] n = 3 -> 871 [] n = 4 -> 945 [] n = 5 -> 283 [] n = 6 -> 110
      [] n = 7 -> 408

(* p < p_threshold, for p_threshold = blink_per_minute * blink_duration / 60
   with blink_duration in ticks of 1/16 s and p in thousandths *)
BelowThreshold(p, blink_per_minute, blink_duration) ==
    p * 60 * 16 < blink_per_minute * blink_duration * 1000

(* TimelineMixin.get_state: the segment found by bisecting start_times, when
   it contains the time, else -1 *)
get_state(c, time) ==
    LET idx == bisect(c.start_times, time) - 1
    IN  IF idx >= 0 /\ c.start_times[idx + 1] <= time
                    /\ time < c.end_times[idx + 1]
        THEN idx
        ELSE 0 - 1

(* a bug: only the eye images not yet decoded are counted *)
EyeFrames_paths(c, emotion) ==
    Cardinality({k \in DOMAIN c.eye_imgs[emotion] :
                    c.eye_imgs[emotion][k] = "Path"})

(* len(self.eye_imgs[emotion]) *)
EyeFrames(c, emotion) == Len(c.eye_imgs[emotion])

(* Character.get_eye_state *)
get_eye_state(c, time, idx) ==
    LET emotion == c.character_timeline[idx + 1]
    IN  IF emotion \notin DOMAIN c.eye_imgs THEN 0 - 1
        ELSE IF EyeFrames(c, emotion) = 1 THEN 0
        ELSE LET n == IntOfQuotient(time, c.blink_duration)
                 p == rand_from_string(c.character_name, n)
             IN  IF BelowThreshold(p, c.blink_per_minute, c.blink_duration)
                 THEN LET t1 == time - n * c.blink_duration
                          \* t1 / frame_duration = t1 * (frames - 1) / blink_duration
                          n1 == IntOfQuotient(t1 * (EyeFrames(c, emotion) - 1),
                                              c.blink_duration)
                      IN  Min(n1 + 1, EyeFrames(c, emotion) - 1)
                 ELSE 0

(* the status loop of Character.__init__: the status after each segment *)
RECURSIVE Timeline(_, _, _, _)
Timeline(characters, character_status, character_name, status) ==
    IF characters = <<>> THEN <<>>
    ELSE LET now == IF Head(characters) = character_name
                    THEN Head(character_status) ELSE status
         IN  <<now>> \o Timeline(Tail(characters), Tail(character_status),
                                 character_name, now)

(* a bug: the initial status gets no image *)
Emotions_spoken(characters, character_status, character_name, initial_status) ==
    {character_status[i] :
        i \in {j \in DOMAIN characters : characters[j] = character_name}}

(* the emotions loop of Character.__init__: the statuses of the segments the
   character speaks, and the initial status *)
Emotions(characters, character_status, character_name, initial_status) ==
    {character_status[i] :
        i \in {j \in DOMAIN characters : characters[j] = character_name}}
    \cup {initial_status}

(* Character.__init__; eye_files[e] is the number of eye images found for the
   emotion e in character_dir: 0 when <e>.eye.png does not exist, else that
   file and the <e>.eye.<k>.png files *)
NewCharacter(start_times, end_times, character_name, eye_files, characters, character_status, initial_status, blink_per_minute, blink_duration) ==
    LET emotions == Emotions(characters, character_status, character_name,
                             initial_status)
    IN  [character_name |-> character_name,
         start_times |-> start_times,
         end_times |-> end_times,
         character_imgs |-> [e \in emotions |-> "Path"],
         eye_imgs |-> [e \in {x \in emotions : eye_files[x] > 0} |->
                          [k \in 1..eye_files[e] |-> "Path"]],
         character_timeline |->
             Timeline(characters, character_status, character_name,
                      initial_status),
         blink_per_minute |-> blink_per_minute,
         blink_duration |-> blink_duration]

(* a bug: an asset is decoded whether or not it was decoded before *)
IsPath_always(x) == TRUE

(* isinstance(x, Path): the slot still holds the path of its file *)
IsPath(x) == x = "Path"

(* a bug: the segment at index 0 is taken for no segment *)
Character_get_key_first(c, time) ==
    LET idx == get_state(c, time)
    IN  IF idx <= 0
        THEN <<"", 0 - 1>>
        ELSE <<c.character_timeline[idx + 1], get_eye_state(c, time, idx)>>

(* Character.get_key *)
Character_get_key(c, time) ==
    LET idx == get_state(c, time)
    IN  IF idx < 0
        THEN <<"", 0 - 1>>
        ELSE <<c.character_timeline[idx + 1], get_eye_state(c, time, idx)>>

(* Character.__call__: the instance after the call, and whether an image or
   None is returned; eye is the frame get_eye_state gave, when it is asked;
   opened holds the files PILImage.open decoded in this call *)
Render(c, time) ==
    LET idx == get_state(c, time)
    IN  IF idx < 0
        THEN [character |-> c, returned |-> "None", idx |-> idx, asked |-> FALSE,
              eye |-> 0, opened |-> {}]
        ELSE LET emotion == c.character_timeline[idx + 1]
             IN  IF emotion \notin DOMAIN c.character_imgs
                 THEN [character |-> c, returned |-> "KeyError", idx |-> idx,
                       asked |-> FALSE, eye |-> 0, opened |-> {}]
                 ELSE
                 LET base == IsPath(c.character_imgs[emotion])
                     c1 == IF base
                           THEN [c EXCEPT !.character_imgs[emotion] = "ndarray"]
                           ELSE c
                     bases == IF base THEN {<<"base", emotion, 0>>} ELSE {}
                 IN  IF emotion \in DOMAIN c.eye_imgs
                     THEN LET eye_number == get_eye_state(c, time, idx)
                              slot == PyIndex(c.eye_imgs[emotion], eye_number)
                              eye == IsPath(c.eye_imgs[emotion][slot])
                          IN  [character |->
                                  IF eye
                                  THEN [c1 EXCEPT
                                          !.eye_imgs[emotion][slot] = "ndarray"]
                                  ELSE c1,
                               returned |-> "image", idx |-> idx,
                               asked |-> TRUE, eye |-> eye_number,
                               opened |-> bases \cup
                                   (IF eye THEN {<<"eye", emotion, slot>>}
                                    ELSE {})]
                     ELSE [character |-> c1, returned |-> "image", idx |-> idx,
                           asked |-> FALSE, eye |-> 0, opened |-> bases]

----------------------------------------------------------------------------
(* The Character instance under its callers *)

CharacterName == "zundamon"

Speakers == {CharacterName, "metan"}

Statuses == {"n", "happy"}

(* two segments, [-8, -2) and [0, 4) ticks *)
StartTimes == <<0 - 8, 0>>

EndTimes == <<0 - 2, 4>>

(* query times, in ticks *)
CharacterTimes == (0 - 8)..3

(* blink_duration: 2 ticks, 0.125 s *)
BlinkTicks == {2}

(* blink_per_minute: the default, and a rate that makes the threshold 0.25 *)
BlinkRates == {3, 120}

(* the frames a get_eye_state call chose among: 0 when the emotion of the
   segment has no eye images *)
FramesAt(c, idx) ==
    LET emotion == c.character_timeline[idx + 1]
    IN  IF emotion \in DOMAIN c.eye_imgs THEN Len(c.eye_imgs[emotion]) ELSE 0

(* a call at a time; when asked, get_eye_state chose the frame eye among
   frames eye images *)
Seen(op, time, frames, asked, eye) ==
    [op |-> op, time |-> time, frames |-> frames, asked |-> asked, eye |-> eye]

NoCall == Seen("none", 0, 0, FALSE, 0)

(* the per-segment arguments of Character.__init__ *)
Arguments(characters, character_status, initial_status) ==
    [characters |-> characters, character_status |-> character_status,
     initial_status |-> initial_status]

NoCharacter ==
    /\ character = [character_name |-> ""]
    /\ seen = NoCall
    /\ built = Arguments(<<>>, <<>>, "")

CharacterInit ==
    /\ \E characters \in [DOMAIN StartTimes -> Speakers],
          character_status \in [DOMAIN StartTimes -> Statuses],
          eye_files \in [Statuses -> 0..MaxFrames],
          blink_per_minute \in BlinkRates,
          blink_duration \in BlinkTicks :
            character = NewCharacter(StartTimes, EndTimes, CharacterName,
                                     eye_files, characters, character_status,
                                     "n", blink_per_minute, blink_duration)
    /\ seen = NoCall
    /\ built = Arguments(<<>>, <<>>, "")

(* get_eye_state(time, idx), called directly *)
GetEyeStateCall ==
    \E time \in CharacterTimes, idx \in 0..(Len(character.character_timeline) - 1) :
        /\ seen' = Seen("get_eye_state", time, FramesAt(character, idx),
                        TRUE, get_eye_state(character, time, idx))
        /\ UNCHANGED <<character, built>>

(* Character.__call__(time) *)
RenderCall ==
    \E time \in CharacterTimes :
        LET r == Render(character, time)
        IN  /\ character' = r.character
            /\ seen' = Seen("__call__", time,
                            IF r.asked THEN FramesAt(character, r.idx) ELSE 0,
                            r.asked, r.eye)
            /\ UNCHANGED built

----------------------------------------------------------------------------
(* commentary.py: Slide.  A slide file is identified with the number of    *)
(* pages convert_from_path finds in it.                                     *)

(* np.cumsum(slide_counter) *)
RECURSIVE cumsum(_)
cumsum(s) ==
    IF s = <<>> THEN <<>>
    ELSE LET front == cumsum(SubSeq(s, 1, Len(s) - 1))
             before == IF front = <<>> THEN 0 ELSE front[Len(front)]
         IN  Append(front, before + s[Len(s)])

(* convert_from_path(slide_file), each page converted to an RGBA array *)
convert_from_path(slide_file) == [k \in 1..slide_file |-> "ndarray"]

(* Slide.__init__; slide_images is None until the file is converted *)
NewSlide(start_times, end_times, slide_file, slide_counter) ==
    [start_times |-> start_times,
     end_times |-> end_times,
     slide_timeline |-> cumsum(slide_counter),
     slide_file |-> slide_file,
     slide_images |-> [none |-> TRUE, list |-> <<>>]]

(* a bug: the file is converted on every call *)
IsNone_always(slide_images) == TRUE

(* self.slide_images is None *)
IsNone(slide_images) == slide_images.none

(* Slide.get_key *)
Slide_get_key(s, time) ==
    LET idx == get_state(s, time)
    IN  IF 0 < idx THEN s.slide_timeline[idx + 1] ELSE 0 - 1

(* Slide.__call__: the instance after the call, what is returned or raised,
   the slide number used and whether the file was converted in this call *)
Show(s, time) ==
    LET idx == get_state(s, time)
    IN  IF idx < 0
        THEN [slide |-> s, returned |-> "None", idx |-> idx,
              slide_number |-> 0 - 1, converted |-> FALSE]
        ELSE LET slide_number == s.slide_timeline[idx + 1]
                 converted == IsNone(s.slide_images)
                 s1 == IF converted
                       THEN [s EXCEPT !.slide_images =
                                [none |-> FALSE,
                                 list |-> convert_from_path(s.slide_file)]]
                       ELSE s
                 pages == Len(s1.slide_images.list)
             IN  [slide |-> s1,
                  returned |-> IF slide_number < pages /\ 0 - pages <= slide_number
                               THEN "image" ELSE "IndexError",
                  idx |-> idx, slide_number |-> slide_number,
                  converted |-> converted]

----------------------------------------------------------------------------
(* One layer, a Slide or a Character, under its callers *)

(* start_times and end_times as the caller supplies them: up to two
   intervals, each with its end after its start, in any order *)
IntervalInputs ==
    UNION {{p \in [start_times : [1..l -> Times],
                   end_times : [1..l -> 1..(MaxTime + 1)]] :
               \A i \in 1..l : p.start_times[i] < p.end_times[i]} :
           l \in {0, 1, 2}}

(* the pages of the slide file *)
PageInputs == {1, 3}

(* a call at a time; key is the pair the call resolved to, opened the files
   decoded in the call *)
Shown(op, time, key, returned, opened) ==
    [op |-> op, time |-> time, key |-> key, returned |-> returned,
     opened |-> opened]

NoShown == Shown("none", 0, <<"", 0 - 1>>, "None", {})

NoSlide ==
    /\ slide = [slide_file |-> 0]
    /\ shown = NoShown

IsSlide == slide.slide_file > 0

IsCharacter == character.character_name # ""

SlideInit ==
    /\ \E p \in IntervalInputs, slide_file \in PageInputs :
         \E slide_counter \in [DOMAIN p.start_times -> {0, 1}] :
            slide = NewSlide(p.start_times, p.end_times, slide_file,
                             slide_counter)
    /\ shown = NoShown

(* a Character with two eye images for "n" and none for "happy", blinking
   at the rate that makes the threshold 0.25; built keeps the speaker and
   the status given for each segment *)
LayerCharacterInit ==
    /\ \E p \in IntervalInputs :
         \E characters \in [DOMAIN p.start_times -> Speakers],
            character_status \in [DOMAIN p.start_times -> Statuses] :
            /\ character =
                   NewCharacter(p.start_times, p.end_times, CharacterName,
                                [e \in Statuses |-> IF e = "n" THEN 2 ELSE 0],
                                characters, character_status, "n", 120, 2)
            /\ built = Arguments(characters, character_status, "n")
    /\ seen = NoCall

(* TimelineMixin.get_state(time), called on the slide *)
ResolveCall ==
    /\ IsSlide
    /\ \E time \in Queries :
         shown' = Shown("get_state", time, <<"", get_state(slide, time)>>,
                        "int", {})
    /\ UNCHANGED <<slide, characterVars>>

(* Slide.get_key(time) *)
SlideGetKeyCall ==
    /\ IsSlide
    /\ \E time \in Queries :
         shown' = Shown("Slide.get_key", time,
                        <<"", Slide_get_key(slide, time)>>, "int", {})
    /\ UNCHANGED <<slide, characterVars>>

(* Slide.__call__(time) *)
SlideCall ==
    /\ IsSlide
    /\ \E time \in Queries :
         LET r == Show(slide, time)
         IN  /\ slide' = r.slide
             /\ shown' = Shown("Slide.__call__", time, <<"", r.slide_number>>,
                               r.returned,
                               IF r.converted THEN {<<"slide", "", 0>>}
                               ELSE {})
    /\ UNCHANGED characterVars

(* Character.get_key(time) *)
CharacterGetKeyCall ==
    /\ IsCharacter
    /\ \E time \in Queries :
         shown' = Shown("Character.get_key", time,
                        Character_get_key(character, time), "tuple", {})
    /\ UNCHANGED <<slide, characterVars>>

(* Character.__call__(time) *)
CharacterCall ==
    /\ IsCharacter
    /\ \E time \in Queries :
         LET r == Render(character, time)
         IN  /\ character' = r.character
             /\ shown' = Shown("Character.__call__", time,
                               <<"", r.idx>>, r.returned, r.opened)
    /\ UNCHANGED <<slide, seen, built>>

----------------------------------------------------------------------------
(* The specifications *)

Init == MotionInit /\ NoPair /\ NoCharacter /\ NoSlide

Next ==
    \/ AppendCall /\ UNCHANGED <<pairVars, characterVars, slideVars>>
    \/ ExtendCall /\ UNCHANGED <<pairVars, characterVars, slideVars>>
    \/ ExtendDefaultCall /\ UNCHANGED <<pairVars, characterVars, slideVars>>
    \/ ExtendUnknownCall /\ UNCHANGED <<pairVars, characterVars, slideVars>>
    \/ ExtendMismatchCall /\ UNCHANGED <<pairVars, characterVars, slideVars>>
    \/ EvaluateCall /\ UNCHANGED <<pairVars, characterVars, slideVars>>

Spec == Init /\ [][Next]_vars

InitPair == PairInit /\ NoCharacter /\ NoSlide

NextPair ==
    \/ PairExtend /\ UNCHANGED <<characterVars, slideVars>>
    \/ PairAppend /\ UNCHANGED <<characterVars, slideVars>>
    \/ PairEvaluate /\ UNCHANGED <<characterVars, slideVars>>

SpecPair == InitPair /\ [][NextPair]_vars

InitAppend == Init

NextAppend == AppendTieCall /\ UNCHANGED <<pairVars, characterVars, slideVars>>

SpecAppend == InitAppend /\ [][NextAppend]_vars

NoMotion ==
    /\ motion = NewMotion(NoneVal)
    /\ call = Called("init", 0, TRUE, <<>>, 0)
    /\ ret = Outcome("none")

InitCharacter == CharacterInit /\ NoMotion /\ NoPair /\ NoSlide

NextCharacter ==
    \/ GetEyeStateCall /\ UNCHANGED <<motionVars, pairVars, slideVars>>
    \/ RenderCall /\ UNCHANGED <<motionVars, pairVars, slideVars>>

SpecCharacter == InitCharacter /\ [][NextCharacter]_vars

InitLayer ==
    /\ \/ SlideInit /\ NoCharacter
       \/ LayerCharacterInit /\ NoSlide
    /\ NoMotion
    /\ NoPair

NextLayer ==
    \/ ResolveCall /\ UNCHANGED <<motionVars, pairVars>>
    \/ SlideGetKeyCall /\ UNCHANGED <<motionVars, pairVars>>
    \/ SlideCall /\ UNCHANGED <<motionVars, pairVars>>
    \/ CharacterGetKeyCall /\ UNCHANGED <<motionVars, pairVars>>
    \/ CharacterCall /\ UNCHANGED <<motionVars, pairVars>>

SpecLayer == InitLayer /\ [][NextLayer]_vars

----------------------------------------------------------------------------
(* Claims about Motion, under Spec *)

Zipped(m) == Zip(m.keyframes, m.values, m.motion_types)

At(s, time) == SelectSeq(s, LAMBDA e : e.k = time)

IsSorted(s) == \A i, j \in DOMAIN s : i < j => s[i] <= s[j]

(* C1: append with an easing name that is not in the registry raises and
   leaves keyframes, values and easing functions as they were before the
   call *)
C1_UnknownEasingLeavesCurve ==
    [][(call'.op = "append" /\ ~call'.valid)
          => (ret'.raised # "none" /\ motion' = motion)]_vars

(* C2: every append or extend call with valid arguments succeeds, returns
   the instance, and adds exactly the keyframes supplied; no call makes the
   curve shorter *)
C2_ValidCallsSucceedAndGrow ==
    [][/\ (call'.op \in {"append", "extend"} /\ call'.valid)
            => /\ ret'.raised = "none"
               /\ ret'.via = "self"
               /\ Len(motion'.keyframes) =
                      Len(motion.keyframes) + call'.count
       /\ Len(motion'.keyframes) >= Len(motion.keyframes)]_vars

(* the curve is sorted ascending and its three sequences have one length *)
WellFormed(m) ==
    /\ IsSorted(m.keyframes)
    /\ Len(m.values) = Len(m.keyframes)
    /\ Len(m.motion_types) = Len(m.keyframes)

(* C3: the empty curve is sorted and aligned, and an append or extend call
   that completes without error on a sorted, aligned curve leaves keyframes
   sorted ascending, the three sequences of one length, and at the common
   indices exactly the triples held before and the triples inserted *)
C3_SortedAndAligned ==
    [][/\ call.op = "init" => (WellFormed(motion) /\ motion.keyframes = <<>>)
       /\ (/\ call'.op \in {"append", "extend"}
           /\ ret'.raised = "none"
           /\ WellFormed(motion))
            => /\ WellFormed(motion')
               /\ BagOfSeq(Zipped(motion')) =
                      BagOfSeq(Zipped(motion)) (+) BagOfSeq(call'.added)]_vars

(* an append has put its keyframe in front of a later one already there *)
C3_Witness ==
    /\ call.op = "append"
    /\ ret.raised = "none"
    /\ WellFormed(motion)
    /\ Len(motion.keyframes) >= 2
    /\ motion.keyframes[1] < motion.keyframes[2]
    /\ Zipped(motion)[1] = call.added[1]

(* C4: an extend call with valid arguments on a list-backed curve, adding a
   keyframe at a time the curve already holds, succeeds and leaves, at every
   such time, the old entries followed by the new ones *)
C4_ExtendTiesOldThenNew ==
    [][(/\ call'.op = "extend"
        /\ call'.valid
        /\ WellFormed(motion)
        /\ motion.container = "list"
        /\ \E i \in DOMAIN call'.added, j \in DOMAIN motion.keyframes :
               call'.added[i].k = motion.keyframes[j])
          => /\ ret'.raised = "none"
             /\ \A j \in DOMAIN motion.keyframes :
                   At(Zipped(motion'), motion.keyframes[j]) =
                       At(Zipped(motion), motion.keyframes[j]) \o
                       At(call'.added, motion.keyframes[j])]_vars

(* C6: evaluate returns the only value of a one-keyframe curve at every
   time, and with two or more keyframes the first value before the first
   keyframe and the last value at or after the last one, with no easing *)
C6_ClampsOutsideRange ==
    LET n == Len(motion.keyframes)
    IN  (call.op = "evaluate" /\ n >= 1) =>
          /\ n = 1 =>
                /\ ret.raised = "none"
                /\ ret.via = "single"
                /\ ret.value = Returned(motion.values[1])
          /\ (n >= 2 /\ call.time < motion.keyframes[1]) =>
                /\ ret.raised = "none"
                /\ ret.via = "first"
                /\ ret.value = Returned(motion.values[1])
          /\ (n >= 2 /\ call.time >= motion.keyframes[n]) =>
                /\ ret.raised = "none"
                /\ ret.via = "last"
                /\ ret.value = Returned(motion.values[n])

(* evaluate exactly at the last of two or more keyframes, whose value
   differs from the first *)
C6_Witness ==
    LET n == Len(motion.keyframes)
    IN  /\ call.op = "evaluate"
        /\ n >= 2
        /\ call.time = motion.keyframes[n]
        /\ motion.keyframes[1] < motion.keyframes[n]
        /\ motion.values[1] # motion.values[n]
        /\ ret.value = Returned(motion.values[n])

LinearExample ==
    [container |-> "list", keyframes |-> <<0, 10>>,
     values |-> <<[ty |-> "float", x |-> 0, y |-> 0],
                  [ty |-> "float", x |-> 100, y |-> 0]>>,
     motion_types |-> <<"linear", "linear">>, default_value |-> NoneVal]

(* C7: with two or more keyframes and first <= time < last, evaluate
   returns, for the pair i, i+1 with keyframes[i] <= time < keyframes[i+1],
   values[i] + (values[i+1] - values[i]) * eased t per component, eased by
   the function stored for keyframe i; linear from (0, 0) to (10, 100) gives
   50 at 5 *)
C7_InterpolatesBracketingPair ==
    LET n == Len(motion.keyframes)
        ks == motion.keyframes
        vs == motion.values
    IN  /\ evaluate(LinearExample, 5).value.x = <<50, 1>>
        /\ (call.op = "evaluate" /\ n >= 2
              /\ ks[1] <= call.time /\ call.time < ks[n])
            => /\ ret.raised = "none"
               /\ \E i \in 1..(n - 1) :
                     /\ ks[i] <= call.time
                     /\ call.time < ks[i + 1]
                     /\ ks[i + 1] - ks[i] > 0
                     /\ i \in DOMAIN motion.motion_types
                     /\ LET t == Ease(motion.motion_types[i],
                                      call.time - ks[i], ks[i + 1] - ks[i])
                        IN  /\ ret.value.x = Lerp(vs[i].x, vs[i + 1].x, t)
                            /\ vs[i].ty = "tuple" =>
                                  ret.value.y = Lerp(vs[i].y, vs[i + 1].y, t)

(* C8: evaluate on a curve without keyframes returns the default when one
   was set and raises the no-keyframes error otherwise; with a keyframe in
   the curve it does neither *)
C8_DefaultOnlyWhenEmpty ==
    call.op = "evaluate" =>
        IF Len(motion.keyframes) = 0
        THEN IF motion.default_value # NoneVal
             THEN /\ ret.raised = "none"
                  /\ ret.via = "default"
                  /\ ret.value = Returned(motion.default_value)
             ELSE ret.raised = "ValueError: No keyframes"
        ELSE /\ ret.via # "default"
             /\ ret.raised # "ValueError: No keyframes"

(* evaluate on an empty curve whose default is 0.0 *)
C8_Witness ==
    /\ call.op = "evaluate"
    /\ Len(motion.keyframes) = 0
    /\ motion.default_value = [ty |-> "float", x |-> 0, y |-> 0]
    /\ ret.via = "default"


----------------------------------------------------------------------------
(* Claims about the two construction orders, under SpecPair *)

(* C5: once motion has been built by one extend call and other by append
   calls of the same triples with pairwise distinct times, in any order, the
   two hold the same keyframes, values and easing functions, and every
   evaluate call returns (or raises) the same on both *)
C5_ExtendEqualsAppends ==
    (extended /\ todo = {}) =>
        /\ motion.keyframes = other.keyframes
        /\ motion.values = other.values
        /\ motion.motion_types = other.motion_types
        /\ call.op = "evaluate" => ret = retOther

(* both instances hold the same three keyframes, one tuple-backed and one
   list-backed, and an evaluate call has interpolated on both *)
C5_Witness ==
    /\ extended
    /\ todo = {}
    /\ Cardinality(batch) >= 2
    /\ Len(motion.keyframes) = Cardinality(batch)
    /\ motion.container = "tuple"
    /\ other.container = "list"
    /\ other.keyframes = motion.keyframes
    /\ call.op = "evaluate"
    /\ ret.via = "interpolate"
    /\ ret.value.x[2] > 1
    /\ retOther = ret

----------------------------------------------------------------------------
(* Claims about Character, under SpecCharacter *)

Segments == 0..(Len(character.character_timeline) - 1)

(* C9: no call changes the frame get_eye_state gives for any time and
   segment, and two successive calls asking for the frame at one time, among
   the same number of eye images, are given the same frame *)
C9_EyeStateDeterministic ==
    [][/\ \A time \in CharacterTimes, idx \in Segments :
             get_eye_state(character', time, idx) =
                 get_eye_state(character, time, idx)
       /\ (/\ seen.asked /\ seen'.asked
           /\ seen'.time = seen.time
           /\ seen'.frames = seen.frames)
            => seen'.eye = seen.eye]_vars

(* get_eye_state gives a blink frame of an emotion one of whose eye images a
   call has decoded since construction *)
C9_Witness ==
    /\ seen.op = "get_eye_state"
    /\ seen.frames >= 2
    /\ seen.eye >= 1
    /\ \E e \in DOMAIN character.eye_imgs :
          /\ Len(character.eye_imgs[e]) = seen.frames
          /\ \E k \in DOMAIN character.eye_imgs[e] :
                character.eye_imgs[e][k] = "ndarray"

(* C10: with two or more eye images, the frame is in 1..frames-1 when the
   draw of the bucket floor(time / blink_duration) is below the threshold,
   and 0 otherwise, at every time, negative ones included *)
C10_BlinkFrameByFloorBucket ==
    (seen.asked /\ seen.frames >= 2) =>
        LET bucket == seen.time \div character.blink_duration
        IN  IF BelowThreshold(rand_from_string(character.character_name, bucket),
                              character.blink_per_minute,
                              character.blink_duration)
            THEN seen.eye \in 1..(seen.frames - 1)
            ELSE seen.eye = 0

----------------------------------------------------------------------------
(* Claims about append at a time already held, under SpecAppend *)

(* the positions of m that hold the time *)
Holding(m, time) == {i \in DOMAIN m.keyframes : m.keyframes[i] = time}

(* the sequence s with e put in after its first n entries *)
PutAfter(s, n, e) ==
    [i \in 1..(Len(s) + 1) |->
        IF i <= n THEN s[i] ELSE IF i = n + 1 THEN e ELSE s[i - 1]]

(* C13: an append that completes at a time the curve already holds puts the
   new time and value right after the last keyframe with that time and
   leaves every keyframe that was there in its order; the easing function
   goes to the same place when the curve had one per keyframe *)
C13_AppendAfterEqualTimes ==
    [][(/\ call'.op = "append"
        /\ ret'.raised = "none"
        /\ Holding(motion, call'.added[1].k) # {})
        => LET new == call'.added[1]
               last == CHOOSE i \in Holding(motion, new.k) :
                          \A j \in Holding(motion, new.k) : j <= i
           IN  /\ motion'.keyframes = PutAfter(motion.keyframes, last, new.k)
               /\ motion'.values = PutAfter(motion.values, last, new.v)
               /\ Len(motion.motion_types) = Len(motion.keyframes)
                    => motion'.motion_types =
                           PutAfter(motion.motion_types, last, new.f)]_vars

(* the curve held two keyframes at one time, with different values, and an
   append at that time has put a third value after both *)
C13_Witness ==
    /\ call.op = "append"
    /\ ret.raised = "none"
    /\ Len(motion.keyframes) = 3
    /\ Len(motion.motion_types) = 3
    /\ motion.keyframes[1] = motion.keyframes[3]
    /\ motion.values[1] # motion.values[2]
    /\ motion.values[3] = call.added[1].v
    /\ motion.values[3] # motion.values[2]

----------------------------------------------------------------------------
(* Claims about the layers, under SpecLayer *)

(* the intervals of the layer l that contain the time, by 1-based position *)
Containing(l, time) ==
    {i \in DOMAIN l.start_times :
        l.start_times[i] <= time /\ time < l.end_times[i]}

(* the intervals of l are sorted and do not overlap: each ends no later than
   the next one starts *)
SortedDisjoint(l) ==
    \A i \in 1..(Len(l.start_times) - 1) :
        l.end_times[i] <= l.start_times[i + 1]

(* C11: over sorted, non-overlapping intervals at most one interval contains
   a time; get_state returns its 0-based index, and -1 when the time is
   before the first start, in a gap, or at or after the last end;
   Character.get_key returns ('', -1) exactly in those cases, and otherwise
   the emotion of the containing interval *)
C11_ResolveSortedIntervals ==
    /\ (IsSlide /\ SortedDisjoint(slide) /\ shown.op = "get_state")
        => LET c == Containing(slide, shown.time)
           IN  /\ Cardinality(c) <= 1
               /\ c = {} => shown.key[2] = 0 - 1
               /\ \A i \in c : shown.key[2] = i - 1
    /\ (IsCharacter /\ SortedDisjoint(character)
            /\ shown.op = "Character.get_key")
        => LET c == Containing(character, shown.time)
           IN  /\ Cardinality(c) <= 1
               /\ c = {} <=> shown.key = <<"", 0 - 1>>
               /\ \A i \in c : shown.key[1] = character.character_timeline[i]

(* get_key was asked at the start of the second of two intervals with a gap
   between them, and answered with the emotion of that interval *)
C11_Witness ==
    /\ IsCharacter
    /\ Len(character.start_times) = 2
    /\ character.end_times[1] < character.start_times[2]
    /\ shown.op = "Character.get_key"
    /\ shown.time = character.start_times[2]
    /\ shown.key[1] = character.character_timeline[2]
    /\ character.character_timeline[1] # character.character_timeline[2]

(* C12: for any interval arrays, sorted or not, overlapping or not, get_state
   returns the first interval in input order that contains the time, and -1
   only when no interval contains it *)
C12_FirstInInputOrder ==
    (IsSlide /\ shown.op = "get_state")
        => LET c == Containing(slide, shown.time)
           IN  /\ c = {} <=> shown.key[2] = 0 - 1
               /\ \A i \in c : (\A j \in c : i <= j) => shown.key[2] = i - 1

(* C14: Slide.get_key gives -1 exactly at the times where no interval is
   active, which are the times where Slide.__call__ returns None; at every
   other time, the first interval included, it gives the slide number that
   __call__ uses *)
C14_SlideKeyMatchesCall ==
    (IsSlide /\ shown.op = "Slide.get_key")
        => LET r == Show(slide, shown.time)
           IN  /\ shown.key[2] = 0 - 1 <=> Containing(slide, shown.time) = {}
               /\ shown.key[2] = 0 - 1 <=> r.returned = "None"
               /\ r.returned # "None" => shown.key[2] = r.slide_number

(* the files of the character c: the base image of each emotion and the eye
   images of those that have them *)
Assets(c) ==
    {<<"base", e, 0>> : e \in DOMAIN c.character_imgs}
    \cup UNION {{<<"eye", e, k>> : k \in DOMAIN c.eye_imgs[e]} :
                    e \in DOMAIN c.eye_imgs}

(* what the slot of the file a holds in c: its path or the decoded array *)
Slot(c, a) ==
    IF a[1] = "base" THEN c.character_imgs[a[2]] ELSE c.eye_imgs[a[2]][a[3]]

(* C15: a Slide converts its file in a call exactly when the call has an
   active interval and no call before it had one, and keeps the pages from
   then on; a Character decodes, in a call with an active segment, exactly
   those of the base image of the segment's emotion and the eye frame
   chosen that still hold a path, so each file is decoded at most once; a
   slot holding a decoded array holds one ever after, and no other call
   decodes anything *)
C15_DecodedOnceAndKept ==
    [][/\ IsSlide =>
            /\ shown'.opened # {}
                <=> /\ shown'.op = "Slide.__call__"
                    /\ shown'.returned # "None"
                    /\ slide.slide_images.none
            /\ ~slide.slide_images.none
                => slide'.slide_images = slide.slide_images
            /\ slide.slide_images.none /\ shown'.opened = {}
                => slide'.slide_images.none
       /\ IsCharacter =>
            /\ \A a \in shown'.opened :
                   /\ a \in Assets(character)
                   /\ Slot(character, a) = "Path"
                   /\ Slot(character', a) = "ndarray"
            /\ \A a \in Assets(character) :
                   /\ Slot(character, a) = "ndarray"
                        => Slot(character', a) = "ndarray"
                   /\ Slot(character, a) # Slot(character', a)
                        => a \in shown'.opened
            /\ shown'.op # "Character.__call__" => shown'.opened = {}
            /\ (shown'.op = "Character.__call__" /\ shown'.key[2] >= 0)
                => LET emotion ==
                           character.character_timeline[shown'.key[2] + 1]
                   IN  /\ Slot(character', <<"base", emotion, 0>>) = "ndarray"
                       /\ \A a \in shown'.opened :
                              a[2] = emotion
                       /\ Cardinality({a \in shown'.opened : a[1] = "eye"})
                              <= 1]_vars

(* a Character was rendered where everything needed had been decoded by
   earlier calls, an eye frame included, and nothing was decoded again *)
C15_Witness ==
    /\ IsCharacter
    /\ shown.op = "Character.__call__"
    /\ shown.returned = "image"
    /\ shown.opened = {}
    /\ "n" \in DOMAIN character.eye_imgs
    /\ character.eye_imgs["n"][2] = "ndarray"
    /\ character.character_timeline[shown.key[2] + 1] = "n"
    /\ \E a \in Assets(character) : Slot(character, a) = "Path"

----------------------------------------------------------------------------
(* Claims about the construction of a Character, under SpecLayer *)

(* the segments up to i in which the character speaks *)
Spoken(i) ==
    {j \in 1..i : built.characters[j] = character.character_name}

(* C16: character_timeline has one entry per segment; entry i is the status
   of the latest segment up to i in which the character speaks, or the
   initial status when there is none; every emotion of the timeline has a
   base image, and no render call fails on a missing emotion *)
C16_TimelineCarriesStatus ==
    IsCharacter =>
    /\ Len(character.character_timeline) = Len(built.characters)
    /\ Len(character.character_timeline) = Len(character.start_times)
    /\ \A i \in DOMAIN character.character_timeline :
          /\ character.character_timeline[i] =
                IF Spoken(i) = {} THEN built.initial_status
                ELSE built.character_status[
                         CHOOSE j \in Spoken(i) : \A k \in Spoken(i) : k <= j]
          /\ character.character_timeline[i] \in DOMAIN character.character_imgs
    /\ \A time \in Queries :
          Render(character, time).returned # "KeyError"
    /\ shown.returned # "KeyError"

(* the character speaks in neither segment, so both carry the initial
   status, which no segment names, and the first one has been rendered *)
C16_Witness ==
    /\ built.characters = <<"metan", "metan">>
    /\ built.character_status = <<"happy", "happy">>
    /\ character.character_timeline = <<"n", "n">>
    /\ shown.op = "Character.__call__"
    /\ shown.returned = "image"
    /\ shown.key[2] = 0
    /\ character.character_imgs["n"] = "ndarray"

====
